---- MODULE Spec2Model ----
(***************************************************************************)
(* Model of the two tutorial notebooks found in                            *)
(* src/tutorials/binder/0.NASA_EDL_Login.ipynb:                            *)
(*   notebook 1  "How to authenticate with OPeNDAP servers that NASA runs" *)
(*   notebook 2  "Using PyDAP for simple remote data access using DAP4"    *)
(* A notebook is a list of code cells run by a kernel.  The kernel state   *)
(* is the set of bound names plus the values of the names the later cells  *)
(* compute with.  The home directory (~/.dodsrc, ~/.netrc) is shared by    *)
(* the two notebooks.                                                      *)
(***************************************************************************)
EXTENDS Integers, Sequences, FiniteSets, TLC

VARIABLES
    nb,                   \* the notebook whose kernel is running (1 or 2)
    rest,                 \* notebooks the user has still to open
    pc,                   \* position of the next step of notebook nb
    names,                \* names bound in the running kernel
    err,                  \* "none" or the exception that stopped the run
    dodsrc,               \* ~/.dodsrc: Missing or its sequence of lines
    netrc,                \* ~/.netrc exists (written by login(persist=True))
    opened,               \* URLs handed to window.open
    auth,                 \* kernel name auth
    USE_ORIGINAL_SERVICE, \* kernel name USE_ORIGINAL_SERVICE
    dataset_url,          \* kernel name dataset_url
    dap4_url,             \* kernel name dap4_url
    granule,              \* the granule the server holds behind dap4_url
    pydap_ds,             \* kernel name pydap_ds (variable name -> shape)
    time,                 \* kernel name time
    lat,                  \* kernel name lat
    lon,                  \* kernel name lon
    sst,                  \* kernel name sst
    scaled_sst            \* kernel name scaled_sst

vars == <<nb, rest, pc, names, err, dodsrc, netrc, opened, auth,
          USE_ORIGINAL_SERVICE, dataset_url, dap4_url, granule, pydap_ds,
          time, lat, lon, sst, scaled_sst>>

(***************************************************************************)
(* Bounds of the model.                                                    *)
(***************************************************************************)
MaxDim == 2      \* lat and lon sizes range over 1..MaxDim
MaxLines == 2    \* lines of a pre-existing ~/.dodsrc
MaxParts == 3    \* pieces a candidate dataset_url is put together from

(***************************************************************************)
(* Python str.  A string is a sequence of pieces.  The pieces of a scheme  *)
(* are single characters; a host or a path that holds no 'h' of "http" may *)
(* be written as one piece.                                                *)
(***************************************************************************)
MatchAt(s, pat, i) ==
    /\ i + Len(pat) - 1 <= Len(s)
    /\ \A k \in 1..Len(pat) : s[i + k - 1] = pat[k]

\* str.find(pat): lowest 0-based index where pat occurs, -1 when it does not
find(s, pat) ==
    LET hits == {i \in 1..(Len(s) + 1) : MatchAt(s, pat, i)}
    IN  IF hits = {} THEN -1
        ELSE (CHOOSE i \in hits : \A j \in hits : i <= j) - 1

\* str.replace(old, new, 1): the first occurrence of old replaced, if any
replace1(s, old, new) ==
    LET i == find(s, old)
    IN  IF i = -1 THEN s
        ELSE SubSeq(s, 1, i) \o new \o SubSeq(s, i + Len(old) + 1, Len(s))

startswith(s, pat) == MatchAt(s, pat, 1)

S_https  == <<"h", "t", "t", "p", "s">>
S_httpsU == <<"h", "t", "t", "p", "s", ":", "/", "/">>
S_httpU  == <<"h", "t", "t", "p", ":", "/", "/">>
S_dap4U  == <<"d", "a", "p", "4", ":", "/", "/">>

\* the URL-conversion cell with "find(...) == 0" written as "find(...) != -1"
ToDap4FindAnywhere(url) ==
    IF find(url, S_https) # -1
    THEN replace1(url, S_httpsU, S_dap4U)
    ELSE replace1(url, S_httpU, S_dap4U)

\* the body of the URL-conversion cell
ToDap4(url) ==
    IF find(url, S_https) = 0
    THEN replace1(url, S_httpsU, S_dap4U)
    ELSE replace1(url, S_httpU, S_dap4U)

NasaUrl == S_dap4U \o <<"opendap.earthdata.nasa.gov",
    "/collections/C2036877806-POCLOUD/granules/",
    "20220812010000-OSISAF-L3C_GHRSST-SSTsubskin-GOES16-ssteqc_goes16_20220812_010000-v02.0-fv01.0">>

TestUrl == S_dap4U \o <<"test.opendap.org",
    "/opendap/tutorials/",
    "20220812010000-OSISAF-L3C_GHRSST-SSTsubskin-GOES16-ssteqc_goes16_20220812_010000-v02.0-fv01.0",
    ".nc">>

(***************************************************************************)
(* numpy arrays: a shape and the elements in row-major (C) order.          *)
(* An int16 element is an integer.  A float32 element is a record: nan, or *)
(* a value c counted in hundredths (1513.0 is c = 151300, 288.28 is        *)
(* c = 28828).                                                             *)
(***************************************************************************)
RECURSIVE Prod(_)
Prod(shape) == IF shape = <<>> THEN 1 ELSE Head(shape) * Prod(Tail(shape))

RECURSIVE Offset(_, _)
Offset(shape, idx) ==
    IF shape = <<>> THEN 0
    ELSE idx[1] * Prod(Tail(shape)) + Offset(Tail(shape), Tail(idx))

\* a[idx], idx a tuple of 0-based indices, one per axis
Item(a, idx) == a.data[1 + Offset(a.shape, idx)]

NoArr == [shape |-> <<>>, data |-> <<>>]

RECURSIVE DropOnes(_)
DropOnes(shape) ==
    IF shape = <<>> THEN <<>>
    ELSE IF Head(shape) = 1 THEN DropOnes(Tail(shape))
         ELSE <<Head(shape)>> \o DropOnes(Tail(shape))

\* np.squeeze(a): every axis of length one is removed, the elements stay
squeeze(a) == [shape |-> DropOnes(a.shape), data |-> a.data]

NaN == [nan |-> TRUE, c |-> 0]
Float(c) == [nan |-> FALSE, c |-> c]

\* a[:].astype(np.float32) of an int16 array: a new array, every value exact
astype_float32(a) ==
    [shape |-> a.shape, data |-> [k \in DOMAIN a.data |-> Float(a.data[k] * 100)]]

\* x < y of a float32 x and a number y given in hundredths; nan compares False
Less(x, yc) == ~x.nan /\ x.c < yc

Threshold == -32000

\* a[a < -32000] = np.nan, as the array it leaves in a
mask_fill(a) ==
    [shape |-> a.shape,
     data |-> [k \in DOMAIN a.data |->
                 IF Less(a.data[k], Threshold * 100) THEN NaN ELSE a.data[k]]]

\* x * m + b elementwise, m and b in hundredths; nan stays nan
MulAdd(x, mc, bc) == IF x.nan THEN NaN ELSE Float((x.c * mc) \div 100 + bc)

ScaleLiteral == 1          \* the literal 0.01
OffsetLiteral == 27315     \* the literal 273.14999999999998 (the double 273.15)

\* the scaling cell with a mistyped offset (273.16)
scale_typo(a) ==
    [shape |-> a.shape,
     data |-> [k \in DOMAIN a.data |-> MulAdd(a.data[k], ScaleLiteral, OffsetLiteral + 1)]]

\* sst * 0.01 + 273.14999999999998: a new array
scale(a) ==
    [shape |-> a.shape,
     data |-> [k \in DOMAIN a.data |-> MulAdd(a.data[k], ScaleLiteral, OffsetLiteral)]]

(***************************************************************************)
(* ~/.dodsrc and setup_dodsrc.sh.  The script is not among the source      *)
(* files; it is modelled from the notebook's description of it ("making    *)
(* and/or editing ~/.dodsrc only if needed") and from its recorded output. *)
(***************************************************************************)
NETRC == "HTTP.NETRC"
COOKIES == "HTTP.COOKIES"
LineKinds == {NETRC, COOKIES}

Missing == [exists |-> FALSE, lines |-> <<>>]
File(lines) == [exists |-> TRUE, lines |-> lines]

HasNetrc(f) == f.exists /\ \E i \in DOMAIN f.lines : f.lines[i] = NETRC

\* a script that appends the line without looking for it first
setup_dodsrc_always(f) == {File(f.lines \o <<NETRC>>)}

\* the files one run of setup_dodsrc.sh may leave, given the file it finds
setup_dodsrc(f) ==
    IF HasNetrc(f) THEN {f}
    ELSE IF f.exists THEN {File(f.lines \o <<NETRC>>)}
    ELSE {File(<<NETRC>>), File(<<NETRC, COOKIES>>)}

DodsrcFiles ==
    {Missing} \cup
    {File(l) : l \in UNION {[1..n -> LineKinds] : n \in 0..MaxLines}}

(***************************************************************************)
(* The notebooks.  A step is a code cell; the squeeze cell is three steps, *)
(* one per assignment to sst.                                              *)
(***************************************************************************)
Steps1 == <<"A1", "A2", "A3", "A4", "A5">>

\* notebook 2 with print(pydap_ds) run before the open_url cell
Steps2PrintFirst ==
    <<"B1", "B2", "B3", "B4", "B5", "B7", "B6", "B8", "B9", "B10", "B11",
      "B12", "B13a", "B13b", "B13c", "B14", "B15", "B16", "B17">>

Steps2 ==
    <<"B1", "B2", "B3", "B4", "B5", "B6", "B7", "B8", "B9", "B10", "B11",
      "B12", "B13a", "B13b", "B13c", "B14", "B15", "B16", "B17">>

Steps(n) == IF n = 1 THEN Steps1 ELSE Steps2

\* the names a step reads before it binds them itself
Reads(s) ==
    CASE s = "A4"   -> {"window_open", "auth", "IPython"}
      [] s = "B5"   -> {"dataset_url"}
      [] s = "B6"   -> {"open_url", "dap4_url"}
      [] s \in {"B7", "B8", "B9", "B10", "B11", "B12"} -> {"pydap_ds"}
      [] s = "B13a" -> {"sst", "np"}
      [] s = "B13b" -> {"sst", "np"}
      [] s = "B13c" -> {"sst", "np"}
      [] s = "B14"  -> {"sst", "pydap_ds"}
      [] s = "B15"  -> {"sst"}
      [] s = "B16"  -> {"lat", "lon", "scaled_sst"}
      [] s = "B17"  -> {"lon", "lat", "scaled_sst"}
      [] OTHER      -> {}

\* the names a step binds (imports, assignments, defs)
Binds(s) ==
    CASE s = "A1"   -> {"earthaccess", "auth"}
      [] s = "A3"   -> {"IPython", "window_open"}
      [] s = "B2"   -> {"requests", "open_url", "setup_session", "np", "Code"}
      [] s = "B3"   -> {"earthaccess", "auth"}
      [] s = "B4"   -> {"USE_ORIGINAL_SERVICE", "dataset_url"}
      [] s = "B5"   -> {"dap4_url"}
      [] s = "B6"   -> {"pydap_ds"}
      [] s = "B9"   -> {"time"}
      [] s = "B10"  -> {"lat"}
      [] s = "B11"  -> {"lon"}
      [] s \in {"B12", "B13a", "B13b", "B13c"} -> {"sst"}
      [] s = "B15"  -> {"scaled_sst"}
      [] s = "B16"  -> {"plt"}
      [] s = "B17"  -> {"ccrs", "cfeature", "plt", "fig", "ax", "pm", "cb"}
      [] OTHER      -> {}

Users == {"jhrg"}
NoAuth == [username |-> ""]
NoStr == <<>>
NoGranule == [M |-> 0, N |-> 0, sst |-> <<>>]
NoDataset == [v \in {} |-> <<>>]
RawVals == {-32768, 1513}

home == <<dodsrc, netrc, opened>>
kernel == <<auth, USE_ORIGINAL_SERVICE, dataset_url, dap4_url, granule,
            pydap_ds, time, lat, lon, sst, scaled_sst>>

\* step s of notebook n is the next one to run
Ready(n, s) ==
    /\ nb = n
    /\ err = "none"
    /\ pc <= Len(Steps(n))
    /\ Steps(n)[pc] = s

Bound(s) == Reads(s) \subseteq names

\* the step ran to its end
Advance(s) ==
    /\ pc' = pc + 1
    /\ names' = names \cup Binds(s)
    /\ UNCHANGED <<nb, rest, err>>

\* the step stopped at a name that is not bound
Raise ==
    /\ err' = "NameError"
    /\ UNCHANGED <<nb, rest, pc, names, home, kernel>>

(***************************************************************************)
(* Cells of notebook 1 and the cells notebook 2 shares with it.            *)
(***************************************************************************)
\* auth = earthaccess.login(strategy="interactive", persist=True)
Login(n, s) ==
    /\ Ready(n, s)
    /\ IF Bound(s)
       THEN /\ \E u \in Users : auth' = [username |-> u]
            /\ netrc' = TRUE
            /\ Advance(s)
            /\ UNCHANGED <<dodsrc, opened, USE_ORIGINAL_SERVICE, dataset_url,
                           dap4_url, granule, pydap_ds, time, lat, lon, sst,
                           scaled_sst>>
       ELSE Raise

\* !./setup_dodsrc.sh
SetupDodsrc(n, s) ==
    /\ Ready(n, s)
    /\ IF Bound(s)
       THEN /\ dodsrc' \in setup_dodsrc(dodsrc)
            /\ Advance(s)
            /\ UNCHANGED <<netrc, opened, kernel>>
       ELSE Raise

\* a cell that only imports, defines, prints or plots
Plain(n, s) ==
    /\ Ready(n, s)
    /\ IF Bound(s)
       THEN /\ Advance(s)
            /\ UNCHANGED <<home, kernel>>
       ELSE Raise

\* window_open(f"https://urs.earthdata.nasa.gov/users/{auth.username}/authorized_apps")
ApproveApps ==
    /\ Ready(1, "A4")
    /\ IF Bound("A4")
       THEN /\ opened' = opened \cup
                  {<<"https://urs.earthdata.nasa.gov/users/", auth.username,
                     "/authorized_apps">>}
            /\ Advance("A4")
            /\ UNCHANGED <<dodsrc, netrc, kernel>>
       ELSE Raise

(***************************************************************************)
(* Cells of notebook 2.                                                    *)
(***************************************************************************)
\* USE_ORIGINAL_SERVICE=...; dataset_url = one of the two endpoints
ChooseUrl ==
    /\ Ready(2, "B4")
    /\ IF Bound("B4")
       THEN /\ \E u \in BOOLEAN :
                  /\ USE_ORIGINAL_SERVICE' = u
                  /\ dataset_url' = IF u THEN NasaUrl ELSE TestUrl
            /\ Advance("B4")
            /\ UNCHANGED <<home, auth, dap4_url, granule, pydap_ds, time, lat,
                           lon, sst, scaled_sst>>
       ELSE Raise

\* dap4_url = dataset_url with its http(s) scheme replaced
ConvertUrl ==
    /\ Ready(2, "B5")
    /\ IF Bound("B5")
       THEN /\ dap4_url' = ToDap4(dataset_url)
            /\ Advance("B5")
            /\ UNCHANGED <<home, auth, USE_ORIGINAL_SERVICE, dataset_url,
                           granule, pydap_ds, time, lat, lon, sst, scaled_sst>>
       ELSE Raise

\* the shapes the metadata response of a granule declares
Shapes(g) ==
    [v \in {"time", "lat", "lon", "sea_surface_temperature", "wind_speed"} |->
        CASE v = "time" -> <<1>>
          [] v = "lat"  -> <<g.M>>
          [] v = "lon"  -> <<g.N>>
          [] OTHER      -> <<1, g.M, g.N>>]

\* pydap_ds = open_url(dap4_url); the server answers for some granule
OpenUrl ==
    /\ Ready(2, "B6")
    /\ IF Bound("B6")
       THEN /\ \E M \in 1..MaxDim, N \in 1..MaxDim :
                \E raw \in [(0..(M - 1)) \X (0..(N - 1)) -> RawVals] :
                  /\ granule' = [M |-> M, N |-> N, sst |-> raw]
                  /\ pydap_ds' = Shapes(granule')
            /\ Advance("B6")
            /\ UNCHANGED <<home, auth, USE_ORIGINAL_SERVICE, dataset_url,
                           dap4_url, time, lat, lon, sst, scaled_sst>>
       ELSE Raise

\* the values of a coordinate variable of n points; the values the server
\* holds are not used by any cell but print and plot, so the point's index
\* stands for them
Coord(n) == [shape |-> <<n>>, data |-> [i \in 1..n |-> i - 1]]

\* time = pydap_ds.time.data[:]
GetTime ==
    /\ Ready(2, "B9")
    /\ IF Bound("B9")
       THEN /\ time' = Coord(pydap_ds["time"][1])
            /\ Advance("B9")
            /\ UNCHANGED <<home, auth, USE_ORIGINAL_SERVICE, dataset_url,
                           dap4_url, granule, pydap_ds, lat, lon, sst,
                           scaled_sst>>
       ELSE Raise

\* lat = pydap_ds.lat.data[:]
GetLat ==
    /\ Ready(2, "B10")
    /\ IF Bound("B10")
       THEN /\ lat' = Coord(pydap_ds["lat"][1])
            /\ Advance("B10")
            /\ UNCHANGED <<home, auth, USE_ORIGINAL_SERVICE, dataset_url,
                           dap4_url, granule, pydap_ds, time, lon, sst,
                           scaled_sst>>
       ELSE Raise

\* lon = pydap_ds.lon.data[:]
GetLon ==
    /\ Ready(2, "B11")
    /\ IF Bound("B11")
       THEN /\ lon' = Coord(pydap_ds["lon"][1])
            /\ Advance("B11")
            /\ UNCHANGED <<home, auth, USE_ORIGINAL_SERVICE, dataset_url,
                           dap4_url, granule, pydap_ds, time, lat, sst,
                           scaled_sst>>
       ELSE Raise

\* the int16 array (1, M, N) of a granule's sea_surface_temperature
RawSst(g) ==
    [shape |-> <<1, g.M, g.N>>,
     data |-> [k \in 1..(g.M * g.N) |->
                 g.sst[<<(k - 1) \div g.N, (k - 1) % g.N>>]]]

\* sst = pydap_ds.sea_surface_temperature.data[:]
GetSst ==
    /\ Ready(2, "B12")
    /\ IF Bound("B12")
       THEN /\ sst' = RawSst(granule)
            /\ Advance("B12")
            /\ UNCHANGED <<home, auth, USE_ORIGINAL_SERVICE, dataset_url,
                           dap4_url, granule, pydap_ds, time, lat, lon,
                           scaled_sst>>
       ELSE Raise

\* an assignment to sst of the squeeze cell
SetSst(s, new) ==
    /\ Ready(2, s)
    /\ IF Bound(s)
       THEN /\ sst' = new
            /\ Advance(s)
            /\ UNCHANGED <<home, auth, USE_ORIGINAL_SERVICE, dataset_url,
                           dap4_url, granule, pydap_ds, time, lat, lon,
                           scaled_sst>>
       ELSE Raise

\* sst = np.squeeze(sst)
Squeeze == SetSst("B13a", squeeze(sst))

\* sst = sst[:].astype(np.float32)
AsFloat == SetSst("B13b", astype_float32(sst))

\* sst[sst < -32000] = np.nan
MaskFill == SetSst("B13c", mask_fill(sst))

\* scaled_sst = sst * 0.01 + 273.14999999999998
Scale ==
    /\ Ready(2, "B15")
    /\ IF Bound("B15")
       THEN /\ scaled_sst' = scale(sst)
            /\ Advance("B15")
            /\ UNCHANGED <<home, auth, USE_ORIGINAL_SERVICE, dataset_url,
                           dap4_url, granule, pydap_ds, time, lat, lon, sst>>
       ELSE Raise

(***************************************************************************)
(* The user: opens the two notebooks one after the other, in either order, *)
(* each with a fresh kernel, and runs the cells of each from the top.      *)
(***************************************************************************)
FreshKernel ==
    /\ auth = NoAuth
    /\ USE_ORIGINAL_SERVICE = FALSE
    /\ dataset_url = NoStr
    /\ dap4_url = NoStr
    /\ granule = NoGranule
    /\ pydap_ds = NoDataset
    /\ time = NoArr
    /\ lat = NoArr
    /\ lon = NoArr
    /\ sst = NoArr
    /\ scaled_sst = NoArr

OpenNext ==
    /\ err = "none"
    /\ pc > Len(Steps(nb))
    /\ rest # <<>>
    /\ nb' = Head(rest)
    /\ rest' = Tail(rest)
    /\ pc' = 1
    /\ names' = {}
    /\ auth' = NoAuth
    /\ USE_ORIGINAL_SERVICE' = FALSE
    /\ dataset_url' = NoStr
    /\ dap4_url' = NoStr
    /\ granule' = NoGranule
    /\ pydap_ds' = NoDataset
    /\ time' = NoArr
    /\ lat' = NoArr
    /\ lon' = NoArr
    /\ sst' = NoArr
    /\ scaled_sst' = NoArr
    /\ UNCHANGED <<err, home>>

Init ==
    /\ \E order \in {<<1, 2>>, <<2, 1>>} :
          /\ nb = Head(order)
          /\ rest = Tail(order)
    /\ pc = 1
    /\ names = {}
    /\ err = "none"
    /\ dodsrc \in DodsrcFiles
    /\ netrc \in BOOLEAN
    /\ opened = {}
    /\ FreshKernel

Next ==
    \/ Login(1, "A1")
    \/ SetupDodsrc(1, "A2")
    \/ Plain(1, "A3")
    \/ ApproveApps
    \/ Plain(1, "A5")
    \/ SetupDodsrc(2, "B1")
    \/ Plain(2, "B2")
    \/ Login(2, "B3")
    \/ ChooseUrl
    \/ ConvertUrl
    \/ OpenUrl
    \/ Plain(2, "B7")
    \/ Plain(2, "B8")
    \/ GetTime
    \/ GetLat
    \/ GetLon
    \/ GetSst
    \/ Squeeze
    \/ AsFloat
    \/ MaskFill
    \/ Plain(2, "B14")
    \/ Scale
    \/ Plain(2, "B16")
    \/ Plain(2, "B17")
    \/ OpenNext

Spec == Init /\ [][Next]_vars

(***************************************************************************)
(* The URL-conversion cell on its own: the user has put a dataset_url of   *)
(* their own in the cell above it and runs the conversion.                 *)
(***************************************************************************)
UrlChunks == {S_httpU, S_httpsU, S_https, S_dap4U, <<"a">>, <<"/">>}

RECURSIVE Concat(_)
Concat(parts) == IF parts = <<>> THEN <<>> ELSE Head(parts) \o Concat(Tail(parts))

UrlInputs ==
    {Concat(parts) : parts \in UNION {[1..n -> UrlChunks] : n \in 1..MaxParts}}

InitUrl ==
    /\ nb = 2
    /\ rest = <<>>
    /\ pc = 5
    /\ names = Binds("B2") \cup Binds("B3") \cup Binds("B4")
    /\ err = "none"
    /\ dodsrc = File(<<NETRC>>)
    /\ netrc = TRUE
    /\ opened = {}
    /\ auth \in {[username |-> u] : u \in Users}
    /\ USE_ORIGINAL_SERVICE \in BOOLEAN
    /\ dataset_url \in UrlInputs
    /\ dap4_url = NoStr
    /\ granule = NoGranule
    /\ pydap_ds = NoDataset
    /\ time = NoArr
    /\ lat = NoArr
    /\ lon = NoArr
    /\ sst = NoArr
    /\ scaled_sst = NoArr

NextUrl == ConvertUrl

SpecUrl == InitUrl /\ [][NextUrl]_vars

(***************************************************************************)
(* Properties.                                                             *)
(***************************************************************************)
Sep == <<":", "/", "/">>

\* what follows the first "://" of s
Remainder(s) == SubSeq(s, find(s, Sep) + Len(Sep) + 1, Len(s))

HttpUrl(s) == startswith(s, S_httpU) \/ startswith(s, S_httpsU)

\* C3: once the conversion cell has run on a dataset_url that begins with
\* "http://" or "https://", dap4_url begins with "dap4://" and what follows
\* the scheme separator is the same in both.
C3_UrlConversion ==
    ("dap4_url" \in names /\ HttpUrl(dataset_url)) =>
        /\ startswith(dap4_url, S_dap4U)
        /\ Remainder(dap4_url) = Remainder(dataset_url)

\* an http:// URL whose remainder itself holds "https://" has been converted
C3_Witness ==
    /\ "dap4_url" \in names
    /\ startswith(dataset_url, S_httpU)
    /\ find(Remainder(dataset_url), S_httpsU) # -1

\* a step of the run is the script setup_dodsrc.sh running to its end
ScriptRuns ==
    /\ err = "none"
    /\ pc <= Len(Steps(nb))
    /\ Steps(nb)[pc] \in {"A2", "B1"}
    /\ pc' = pc + 1

\* C4: a run of setup_dodsrc.sh leaves a ~/.dodsrc that has HTTP.NETRC set
\* untouched, leaves in every case a file that exists and has HTTP.NETRC
\* set, and the second run (the one of the second notebook) changes nothing.
C4_DodsrcOnlyIfNeeded ==
    [][ScriptRuns =>
          /\ HasNetrc(dodsrc) => dodsrc' = dodsrc
          /\ HasNetrc(dodsrc')
          /\ rest = <<>> => dodsrc' = dodsrc]_vars

\* the second run has happened on a file the first run had to edit
C4_Witness ==
    /\ rest = <<>>
    /\ nb = 1
    /\ pc = 3
    /\ dodsrc = File(<<COOKIES, NETRC>>)

AttrScaleFactor == 1     \* attribute scale_factor '0.01', in hundredths
AttrAddOffset == 27315   \* attribute add_offset '273.14999999999998', in hundredths

\* a step of the run is the scaling cell running to its end
ScaleRuns ==
    /\ err = "none"
    /\ nb = 2
    /\ pc <= Len(Steps(nb))
    /\ Steps(nb)[pc] = "B15"
    /\ pc' = pc + 1

\* C5: the scaling cell leaves sst as it was, and every element of
\* scaled_sst that matches a non-fill (non-nan) element x of sst is
\* scale_factor * x + add_offset, with the attributes of the variable.
C5_LinearScaling ==
    [][ScaleRuns =>
          /\ sst' = sst
          /\ scaled_sst'.shape = sst.shape
          /\ DOMAIN scaled_sst'.data = DOMAIN sst.data
          /\ \A k \in DOMAIN sst.data :
                ~sst.data[k].nan =>
                    /\ ~scaled_sst'.data[k].nan
                    /\ scaled_sst'.data[k].c * 100 =
                           AttrScaleFactor * sst.data[k].c + AttrAddOffset * 100]_vars

\* scaled_sst is bound and holds 288.28 for the count 1513 next to a fill
C5_Witness ==
    /\ "scaled_sst" \in names
    /\ \E k \in DOMAIN sst.data :
          /\ sst.data[k] = Float(151300)
          /\ scaled_sst.data[k] = Float(28828)
    /\ \E k \in DOMAIN sst.data : sst.data[k].nan

\* C6: with the cells run once each from the top, no run stops with a
\* NameError: the names the next cell reads are bound by the cells before.
C6_NoNameError ==
    /\ err # "NameError"
    /\ pc <= Len(Steps(nb)) => Bound(Steps(nb)[pc])

\* both notebooks have been run to their last cell
C6_Witness ==
    /\ rest = <<>>
    /\ pc > Len(Steps(nb))
    /\ err = "none"

\* the squeeze statement has just run
Squeezed ==
    /\ nb = 2
    /\ err = "none"
    /\ pc <= Len(Steps(nb))
    /\ Steps(nb)[pc] = "B13b"

====
